---------------------------- MODULE Spec2Model ----------------------------
(***************************************************************************)
(* Pediae payment / push glue: the SumUp return confirmer (Express route   *)
(* and serverless handler), the checkout creators (Express SumUp,          *)
(* serverless SumUp, serverless Stripe), the Web Push dispatcher and the   *)
(* memoized SumUp OAuth token.                                             *)
(*                                                                         *)
(* One HTTP request is in flight at a time; every await of a handler is a  *)
(* separate step whose outcome (the provider's answer, or a thrown error)  *)
(* is chosen nondeterministically.  `calls` logs the outbound calls of the *)
(* request in flight and `resps` the responses written for it.             *)
(*                                                                         *)
(* Strings the code inspects character by character (the payment status)   *)
(* are tuples of one-character strings; the empty tuple is '' / undefined. *)
(***************************************************************************)
EXTENDS Integers, Sequences, FiniteSets, TLC

VARIABLES
  deploy,           \* which program runs: "express", "return", "sumup", "stripe"
  env,              \* process.env as the module-level constants read it
  pedidos,          \* the external table 'pedidos': id -> row
  sumupTokenCache,  \* part_000:185  { token, expiresAt }
  now,              \* Date.now() in ms
  req,              \* the request in flight
  pc,               \* position of the handler of the request in flight
  h,                \* the handler's local variables
  calls,            \* outbound calls made for the request in flight
  resps,            \* responses written for the request in flight
  nreq,             \* requests received so far
  tcall,            \* getSumupToken called on its own: caller -> frame of its call
  tlog              \* the two most recent completed getSumupToken calls

vars == <<deploy, env, pedidos, sumupTokenCache, now, req, pc, h, calls, resps, nreq, tcall, tlog>>

---------------------------------------------------------------------------
(* Bounds *)

MaxRequests == 2
MaxTicks == 4
MaxSubs == 3
MaxCalls == 3

---------------------------------------------------------------------------
(* Strings as character tuples, and the approval regular expression *)

LowerAlpha == <<"a","b","c","d","e","f","g","h","i","j","k","l","m",
                "n","o","p","q","r","s","t","u","v","w","x","y","z">>
UpperAlpha == <<"A","B","C","D","E","F","G","H","I","J","K","L","M",
                "N","O","P","Q","R","S","T","U","V","W","X","Y","Z">>

\* Canonicalisation of one character under the regex flag i.
Canon(c) ==
  IF \E k \in 1..26 : LowerAlpha[k] = c
  THEN UpperAlpha[CHOOSE k \in 1..26 : LowerAlpha[k] = c]
  ELSE c

S_PENDING    == <<"P","E","N","D","I","N","G">>
S_PAID       == <<"P","A","I","D">>
S_APPROVED   == <<"A","P","P","R","O","V","E","D">>
S_SUCCESS    == <<"S","U","C","C","E","S","S">>
S_SUCCESSFUL == <<"S","U","C","C","E","S","S","F","U","L">>
S_FAILED     == <<"F","A","I","L","E","D">>
S_paid       == <<"p","a","i","d">>
S_UNPAID     == <<"U","N","P","A","I","D">>
S_EMPTY      == <<>>

\* The status values a provider answer may carry (S_EMPTY: no status field).
Statuses ==
  {S_EMPTY, S_PENDING, S_PAID, S_APPROVED, S_SUCCESSFUL, S_FAILED,
   S_paid, S_UNPAID}

\* Does pattern p occur in s at position i, ignoring case?
MatchAt(s, p, i) ==
  /\ i + Len(p) - 1 <= Len(s)
  /\ \A k \in 1..Len(p) : Canon(s[i + k - 1]) = Canon(p[k])

Contains(s, p) == \E i \in 1..Len(s) : MatchAt(s, p, i)

ApprovedPatterns == {S_PAID, S_APPROVED, S_SUCCESS}

\* /PAID|APPROVED|SUCCESS/i.test(status)
ApprovedTest(status) == \E p \in ApprovedPatterns : Contains(status, p)

\* a || b on strings
Or(a, b) == IF a /= "" THEN a ELSE b

---------------------------------------------------------------------------
(* Responses *)

Redirect(url) == [kind |-> "redirect", to |-> url]
Json(code, err) == [kind |-> "json", code |-> code, error |-> err]
JsonBody(code, body) == [kind |-> "json", code |-> code, error |-> "", body |-> body]
End(code) == [kind |-> "end", code |-> code]

---------------------------------------------------------------------------
(* Express middleware *)

NoHeader == [prefix |-> "", rest |-> ""]
AuthHeaders ==
  {NoHeader, [prefix |-> "Bearer ", rest |-> "s3cret"],
   [prefix |-> "Bearer ", rest |-> "guess"], [prefix |-> "", rest |-> "s3cret"]}

\* header.startsWith('Bearer ') ? header.slice(7) : ''
BearerOf(header) == IF header.prefix = "Bearer " THEN header.rest ELSE ""

\* The bearer-token middleware lets the request through to the routes.
AuthPasses(r) == env.API_TOKEN = "" \/ BearerOf(r.authorization) = env.API_TOKEN

---------------------------------------------------------------------------
(* Memoized OAuth token (Express) *)

SafetyMarginMs == 60000
DefaultExpiresIn == 600
TickMs == 30000

EmptyCache == [token |-> "", expiresAt |-> 0]

\* Answers of POST https://api.sumup.com/token.  expires_in = 0: field absent.
TokenAnswers ==
  {[ok |-> FALSE, access_token |-> "", expires_in |-> 0]} \cup
  [ok : {TRUE}, access_token : {"tokA", "tokB"}, expires_in : {0, 60, 120}] \cup
  {[ok |-> TRUE, access_token |-> "", expires_in |-> 120]}

CacheFreshNoMargin(cache, t) == cache.token /= "" /\ cache.expiresAt > t

\* sumupTokenCache.token && sumupTokenCache.expiresAt - 60_000 > now
CacheFresh(cache, t) == cache.token /= "" /\ cache.expiresAt - SafetyMarginMs > t

\* Number(data.expires_in || 600) * 1000
ExpiresInMs(data) ==
  (IF data.expires_in /= 0 THEN data.expires_in ELSE DefaultExpiresIn) * 1000

CacheStoreKeepLaterExpiry(t, data) ==
  [token |-> data.access_token,
   expiresAt |-> IF sumupTokenCache.expiresAt > t + ExpiresInMs(data)
                 THEN sumupTokenCache.expiresAt ELSE t + ExpiresInMs(data)]

\* sumupTokenCache = { token: data.access_token, expiresAt: now + ... }
CacheStore(t, data) == [token |-> data.access_token, expiresAt |-> t + ExpiresInMs(data)]

\* getSumupToken called on its own (part_000:186-198): the call up to its fetch,
\* and the continuation when the fetch answers.  A frame keeps the call's `now`,
\* and for the record the cache it met and the upstream requests it made.
Callers == {"a", "b"}

IdleCall ==
  [pc |-> "idle", tnow |-> 0, met |-> EmptyCache, fetched |-> 0, ret |-> "",
   answer |-> [ok |-> FALSE, access_token |-> "", expires_in |-> 0]]

\* the record of a completed call, the most recent two kept
Logged(log, c, frame) ==
  LET e == [by |-> c, tnow |-> frame.tnow, met |-> frame.met, fetched |-> frame.fetched,
            outcome |-> frame.pc, ret |-> frame.ret, answer |-> frame.answer]
  IN IF Len(log) < 2 THEN Append(log, e) ELSE <<log[2], e>>

NoCallInFlight == \A c \in Callers : tcall[c].pc /= "fetching"

TokenCall(c) ==
  /\ deploy = "express"
  /\ tcall[c].pc /= "fetching"
  /\ nreq < MaxCalls
  /\ nreq' = nreq + 1
  /\ LET frame == IF CacheFresh(sumupTokenCache, now)
                  THEN [IdleCall EXCEPT !.pc = "returned", !.tnow = now,
                                        !.met = sumupTokenCache,
                                        !.ret = sumupTokenCache.token]
                  ELSE [IdleCall EXCEPT !.pc = "fetching", !.tnow = now,
                                        !.met = sumupTokenCache, !.fetched = 1]
     IN /\ tcall' = [tcall EXCEPT ![c] = frame]
        /\ tlog' = IF frame.pc = "returned" THEN Logged(tlog, c, frame) ELSE tlog
  /\ UNCHANGED <<deploy, env, pedidos, sumupTokenCache, now, req, pc, h, calls, resps>>

\* the continuation after the fetch: throw, or replace the cache and return
TokenAnswerStep(c, a) ==
  /\ tcall[c].pc = "fetching"
  /\ LET frame == IF ~a.ok
                  THEN [tcall[c] EXCEPT !.pc = "threw", !.answer = a]
                  ELSE [tcall[c] EXCEPT !.pc = "returned", !.answer = a,
                                        !.ret = CacheStore(tcall[c].tnow, a).token]
     IN /\ tcall' = [tcall EXCEPT ![c] = frame]
        /\ tlog' = Logged(tlog, c, frame)
        /\ sumupTokenCache' =
             IF a.ok THEN CacheStore(tcall[c].tnow, a) ELSE sumupTokenCache
  /\ UNCHANGED <<deploy, env, pedidos, now, req, pc, h, resps, nreq>>

TokenAnswer(c, a) ==
  /\ TokenAnswerStep(c, a)
  /\ UNCHANGED calls

\* the same step, with every successful upstream response kept in `calls`
\* beside the `now` of the call that received it
TokenAnswerRecorded(c, a) ==
  /\ TokenAnswerStep(c, a)
  /\ calls' = IF a.ok
              THEN Append(calls, [to |-> "oauth", by |-> c, tnow |-> tcall[c].tnow,
                                  answer |-> a])
              ELSE calls


---------------------------------------------------------------------------
(* Module-level constants of the deployed program *)

\* return.mjs:5 (|| '/') and part_000:182 (|| '')
SUMUP_SUCCESS_URL ==
  IF deploy = "return" THEN Or(env.SUMUP_SUCCESS_URL, "/") ELSE env.SUMUP_SUCCESS_URL

\* return.mjs:6 (|| '/') and part_000:183 (|| '')
SUMUP_CANCEL_URL ==
  IF deploy = "return" THEN Or(env.SUMUP_CANCEL_URL, "/") ELSE env.SUMUP_CANCEL_URL

\* return.mjs:9: the client exists only with both settings; part_000:43-46 exits without them.
SupabaseClient == env.SUPABASE

EnvBase ==
  [API_TOKEN |-> "", SUMUP_SUCCESS_URL |-> "", SUMUP_CANCEL_URL |-> "",
   SUMUP_CLIENT_ID |-> "id", SUMUP_CLIENT_SECRET |-> "secret",
   SUMUP_MERCHANT_CODE |-> "M1", STRIPE_SECRET_KEY |-> "sk",
   SUPABASE |-> TRUE, PUSH_PROVIDER |-> "webpush", VAPID |-> TRUE]

---------------------------------------------------------------------------
(* The order table *)

OrderIds == {"p1", "p2"}
PedidoIdParams == {"", "p1", "p9"}

NewOrder == [status |-> "pending", observacoes |-> <<>>]

\* .update(fields).eq('id', id): every row whose id equals id gets the fields.
UpdateWhereId(table, id, fields) ==
  [k \in DOMAIN table |->
     IF k = id
     THEN [f \in DOMAIN table[k] |-> IF f \in DOMAIN fields THEN fields[f] ELSE table[k][f]]
     ELSE table[k]]

---------------------------------------------------------------------------
(* SumUp return confirmer: part_000:240-274 and return.mjs:22-48 *)

ReturnQueries ==
  {[pedido_id |-> p, checkout_id |-> c[1], checkoutId |-> c[2],
    transaction_id |-> t[1], transactionId |-> t[2]] :
     p \in PedidoIdParams,
     c \in {<<"", "">>, <<"", "c1">>, <<"c1", "c2">>},
     t \in {<<"", "">>, <<"", "t1">>, <<"t1", "t2">>}}

ReturnRequests ==
  [route : {"return"}, authorization : AuthHeaders, query : ReturnQueries]

\* what the route handler reads of the request
Admitted(r) == [route |-> r.route, query |-> r.query]

IdleFrame == [route |-> "none"]

InitialStatusPaid == S_PAID

\* let status = 'PENDING'
InitialStatus == S_PENDING

ReturnFrame(r) ==
  [route |-> "return",
   pedidoId |-> r.query.pedido_id,
   checkoutId |-> Or(r.query.checkout_id, r.query.checkoutId),
   txId |-> Or(r.query.transaction_id, r.query.transactionId),
   accessToken |-> "", tnow |-> 0,
   status |-> InitialStatus, txid |-> "",
   approved |-> FALSE, resolved |-> FALSE]

\* Provider answers to the checkout and transaction queries; threw: the fetch
\* rejected or the body was not JSON.
ProviderAnswers ==
  [threw : {FALSE}, status : Statuses, id : {"tx9"}] \cup
  {[threw |-> TRUE, status |-> S_EMPTY, id |-> ""]}

\* Answers of the token endpoint as the handlers meet them.
HandlerTokenAnswers == {a \in TokenAnswers : a.access_token /= "tokB" /\ a.expires_in = 0}

TxEligibleAlways(status) == TRUE

\* status === 'PENDING' || status === 'PAID' || status === 'APPROVED'
TxEligible(status) == status \in {S_PENDING, S_PAID, S_APPROVED}

\* where the catch block sends the browser
CatchUrl == IF deploy = "return" THEN SUMUP_CANCEL_URL ELSE Or(SUMUP_CANCEL_URL, "/")

\* where line 44 / lines 269-270 send the browser
FinalUrl(approved) ==
  IF deploy = "return"
  THEN (IF approved THEN SUMUP_SUCCESS_URL ELSE SUMUP_CANCEL_URL)
  ELSE (IF approved /\ SUMUP_SUCCESS_URL /= "" THEN SUMUP_SUCCESS_URL
        ELSE Or(SUMUP_CANCEL_URL, "/"))

ShouldUpdateUnguarded(approved, pedidoId) == pedidoId /= ""

\* approved && pedidoId [&& supabase]
ShouldUpdate(approved, pedidoId) ==
  approved /\ pedidoId /= "" /\ (deploy = "return" => SupabaseClient)

\* the fields of the update
AcceptFields(frame) ==
  IF deploy = "return"
  THEN [status |-> "aceito"]
  ELSE [status |-> "aceito",
        observacoes |-> <<"Pago via SumUp ", Or(frame.txid, frame.checkoutId)>>]

ReturnRequest(r) ==
  /\ deploy \in {"express", "return"}
  /\ pc = "idle"
  /\ nreq < MaxRequests
  /\ deploy = "return" => r.authorization = NoHeader
  /\ req' = Admitted(r)
  /\ nreq' = nreq + 1
  /\ calls' = <<>>
  /\ IF deploy = "express" /\ ~AuthPasses(r)
     THEN /\ resps' = <<Json(401, "unauthorized")>>
          /\ pc' = "done"
          /\ h' = IdleFrame
     ELSE /\ resps' = <<>>
          /\ pc' = "token"
          /\ h' = ReturnFrame(r)
  /\ UNCHANGED <<deploy, env, pedidos, sumupTokenCache, now, tcall, tlog>>

\* what a handler answers when an awaited call throws
ThrowResponse ==
  IF h.route = "return" THEN Redirect(CatchUrl)
  ELSE Json(500, IF deploy = "stripe" THEN "stripe_error" ELSE "server_error")

\* getSumupToken up to its fetch (the memoized variant may return at once)
HandlerToken ==
  /\ h.route \in {"return", "create"}
  /\ pc = "token"
  /\ IF deploy = "express" /\ CacheFresh(sumupTokenCache, now)
     THEN /\ h' = [h EXCEPT !.accessToken = sumupTokenCache.token]
          /\ pc' = "checkout"
          /\ calls' = calls
     ELSE /\ h' = [h EXCEPT !.tnow = now]
          /\ pc' = "tokenwait"
          /\ calls' = Append(calls, [to |-> "oauth", arg |-> ""])
  /\ UNCHANGED <<deploy, env, pedidos, sumupTokenCache, now, req, resps, nreq, tcall, tlog>>

HandlerTokenAnswer(a) ==
  /\ h.route \in {"return", "create"}
  /\ pc = "tokenwait"
  /\ IF ~a.ok
     THEN /\ resps' = Append(resps, ThrowResponse)
          /\ pc' = "done"
          /\ UNCHANGED <<h, sumupTokenCache>>
     ELSE /\ sumupTokenCache' =
               IF deploy = "express" THEN CacheStore(h.tnow, a) ELSE sumupTokenCache
          /\ h' = [h EXCEPT !.accessToken = a.access_token]
          /\ pc' = "checkout"
          /\ resps' = resps
  /\ UNCHANGED <<deploy, env, pedidos, now, req, calls, nreq, tcall, tlog>>

ReturnCheckout(a) ==
  /\ h.route = "return"
  /\ pc = "checkout"
  /\ IF h.checkoutId = ""
     THEN /\ pc' = "tx"
          /\ UNCHANGED <<h, calls, resps>>
     ELSE /\ calls' = Append(calls, [to |-> "checkout", arg |-> h.checkoutId, answer |-> a])
          /\ IF a.threw
             THEN /\ resps' = Append(resps, ThrowResponse)
                  /\ pc' = "done"
                  /\ h' = h
             ELSE /\ h' = [h EXCEPT !.status = IF a.status /= S_EMPTY THEN a.status ELSE @]
                  /\ pc' = "tx"
                  /\ resps' = resps
  /\ UNCHANGED <<deploy, env, pedidos, sumupTokenCache, now, req, nreq, tcall, tlog>>

ReturnTx(a) ==
  /\ h.route = "return"
  /\ pc = "tx"
  /\ IF ~(h.txId /= "" /\ TxEligible(h.status))
     THEN /\ pc' = "decide"
          /\ UNCHANGED <<h, calls, resps>>
     ELSE /\ calls' = Append(calls, [to |-> "transaction", arg |-> h.txId, answer |-> a])
          /\ IF a.threw
             THEN /\ resps' = Append(resps, ThrowResponse)
                  /\ pc' = "done"
                  /\ h' = h
             ELSE /\ h' = [h EXCEPT !.status = IF a.status /= S_EMPTY THEN a.status ELSE @,
                                    !.txid = a.id]
                  /\ pc' = "decide"
                  /\ resps' = resps
  /\ UNCHANGED <<deploy, env, pedidos, sumupTokenCache, now, req, nreq, tcall, tlog>>

ReturnDecide ==
  /\ h.route = "return"
  /\ pc = "decide"
  /\ LET approved == ApprovedTest(h.status) IN
       /\ h' = [h EXCEPT !.approved = approved, !.resolved = TRUE]
       /\ IF ShouldUpdate(approved, h.pedidoId)
          THEN /\ pc' = "update"
               /\ resps' = resps
          ELSE /\ pc' = "done"
               /\ resps' = Append(resps, Redirect(FinalUrl(approved)))
  /\ UNCHANGED <<deploy, env, pedidos, sumupTokenCache, now, req, calls, nreq, tcall, tlog>>

UpdateOutcomes == {"ok", "error", "throw"}

\* the awaited update; its error result is ignored and its exception swallowed
ReturnUpdate(outcome) ==
  /\ h.route = "return"
  /\ pc = "update"
  /\ calls' = Append(calls, [to |-> "pedidos.update", arg |-> h.pedidoId])
  /\ pedidos' = IF outcome = "ok"
                THEN UpdateWhereId(pedidos, h.pedidoId, AcceptFields(h))
                ELSE pedidos
  /\ resps' = Append(resps, Redirect(FinalUrl(h.approved)))
  /\ pc' = "done"
  /\ UNCHANGED <<deploy, env, sumupTokenCache, now, req, h, nreq, tcall, tlog>>

\* the response has gone out and the request's frame is dropped
RequestEnd ==
  /\ pc = "done"
  /\ pc' = "idle"
  /\ req' = [route |-> "none"]
  /\ h' = IdleFrame
  /\ calls' = <<>>
  /\ resps' = <<>>
  /\ UNCHANGED <<deploy, env, pedidos, sumupTokenCache, now, nreq, tcall, tlog>>

\* time passes
Tick ==
  /\ now < MaxTicks * TickMs
  /\ now' = now + TickMs
  /\ UNCHANGED <<deploy, env, pedidos, sumupTokenCache, req, pc, h, calls, resps, nreq, tcall, tlog>>

InitCommon ==
  /\ pedidos = [k \in OrderIds |-> NewOrder]
  /\ sumupTokenCache = EmptyCache
  /\ now = 0
  /\ req = [route |-> "none"]
  /\ pc = "idle"
  /\ h = IdleFrame
  /\ calls = <<>>
  /\ resps = <<>>
  /\ nreq = 0
  /\ tcall = [c \in Callers |-> IdleCall]
  /\ tlog = <<>>

InitToken ==
  /\ deploy = "express"
  /\ env = EnvBase
  /\ InitCommon

\* calls that do not overlap: a call starts only when none is in flight
TokenCallSeq(c) ==
  /\ NoCallInFlight
  /\ TokenCall(c)

NextTokenSeq ==
  \/ \E c \in Callers : TokenCallSeq(c)
  \/ \E c \in Callers : \E a \in TokenAnswers : TokenAnswer(c, a)
  \/ Tick

SpecTokenSeq == InitToken /\ [][NextTokenSeq]_vars

\* Answers of the token endpoint met by overlapping calls
ConcTokenAnswers ==
  {a \in TokenAnswers : a.ok => (a.access_token = "tokA" <=> a.expires_in = 0)}

\* calls that overlap freely: each suspends at its fetch, answers arrive in any order
NextTokenConc ==
  \/ \E c \in Callers : TokenCall(c)
  \/ \E c \in Callers : \E a \in ConcTokenAnswers : TokenAnswerRecorded(c, a)
  \/ Tick

SpecTokenConc == InitToken /\ [][NextTokenConc]_vars

InitReturn ==
  /\ deploy \in {"express", "return"}
  /\ env \in {[EnvBase EXCEPT !.API_TOKEN = t, !.SUMUP_SUCCESS_URL = u[1],
                              !.SUMUP_CANCEL_URL = u[2], !.SUPABASE = b] :
                t \in {"", "s3cret"}, b \in BOOLEAN,
                u \in {<<"", "">>, <<"", "/cancelado">>, <<"/sucesso", "/cancelado">>}}
  /\ deploy = "express" => env.SUPABASE
  /\ deploy = "return" => env.API_TOKEN = ""
  /\ InitCommon

NextReturn ==
  \/ \E r \in ReturnRequests : ReturnRequest(r)
  \/ HandlerToken
  \/ \E a \in HandlerTokenAnswers : HandlerTokenAnswer(a)
  \/ \E a \in ProviderAnswers : ReturnCheckout(a)
  \/ \E a \in ProviderAnswers : ReturnTx(a)
  \/ ReturnDecide
  \/ \E o \in UpdateOutcomes : ReturnUpdate(o)
  \/ RequestEnd

SpecReturn == InitReturn /\ [][NextReturn]_vars

---------------------------------------------------------------------------
(* Checkout creators: part_000:202-237 (Express SumUp), part_000:293-350    *)
(* (Stripe), part_000:376-415 (serverless SumUp)                            *)

\* JSON values of a request body
Undef == [t |-> "undefined"]
Str(v) == [t |-> "string", v |-> v]
Num(v) == [t |-> "number", v |-> v]

\* JavaScript truthiness
Truthy(x) ==
  /\ x.t /= "undefined"
  /\ x.t = "string" => x.v /= ""
  /\ x.t = "number" => x.v /= 0

NoBody == [t |-> "undefined"]
EmptyBody == [t |-> "object", pedidoId |-> Undef, amount |-> Undef, restaurantNome |-> Undef]

CreateBodies ==
  {NoBody} \cup
  [t : {"object"},
   pedidoId : {Undef, Str(""), Str("p1")},
   amount : {Undef, Num(0), Num(1050)},
   restaurantNome : {Undef, Str("Cantina")}]

CreateRequests ==
  [route : {"create"}, method : {"POST", "GET", "OPTIONS"},
   authorization : AuthHeaders, body : CreateBodies]

\* req.body || {}
BodyOf(r) == IF r.body = NoBody THEN EmptyBody ELSE r.body

ConfiguredIgnoringMerchant ==
  IF deploy = "stripe" THEN env.STRIPE_SECRET_KEY /= ""
  ELSE env.SUMUP_CLIENT_ID /= "" /\ env.SUMUP_CLIENT_SECRET /= ""

\* !(!SUMUP_CLIENT_ID || !SUMUP_CLIENT_SECRET || !SUMUP_MERCHANT_CODE), stripe !== null
Configured ==
  IF deploy = "stripe" THEN env.STRIPE_SECRET_KEY /= ""
  ELSE /\ env.SUMUP_CLIENT_ID /= ""
       /\ env.SUMUP_CLIENT_SECRET /= ""
       /\ env.SUMUP_MERCHANT_CODE /= ""

NotConfiguredError ==
  IF deploy = "stripe" THEN "stripe_not_configured" ELSE "sumup_not_configured"

FieldsPresentNoAmount(body) ==
  /\ Truthy(body.pedidoId)
  /\ deploy = "stripe" => Truthy(body.restaurantNome)

\* !(!pedidoId || !amount [|| !restaurant?.nome])
FieldsPresent(body) ==
  /\ Truthy(body.pedidoId)
  /\ Truthy(body.amount)
  /\ deploy = "stripe" => Truthy(body.restaurantNome)

CreateFrame == [route |-> "create", accessToken |-> "", tnow |-> 0]

\* what stops the request before the route handler's body, if anything
BeforeHandler(r) ==
  IF r.method = "OPTIONS" THEN <<End(200)>>
  ELSE IF deploy = "express" /\ ~AuthPasses(r) THEN <<Json(401, "unauthorized")>>
  ELSE IF deploy /= "express" /\ r.method /= "POST" THEN <<Json(405, "method_not_allowed")>>
  ELSE <<>>

CreateAdmitted(r) == [route |-> r.route, method |-> r.method, body |-> r.body]

CreateRequest(r) ==
  /\ deploy \in {"express", "sumup", "stripe"}
  /\ pc = "idle"
  /\ nreq < MaxRequests
  /\ deploy = "express" => r.method /= "GET"
  /\ deploy /= "express" => r.authorization = NoHeader
  /\ req' = CreateAdmitted(r)
  /\ nreq' = nreq + 1
  /\ calls' = <<>>
  /\ IF BeforeHandler(r) /= <<>>
     THEN /\ resps' = BeforeHandler(r)
          /\ pc' = "done"
          /\ h' = IdleFrame
     ELSE /\ h' = CreateFrame
          /\ IF ~Configured
             THEN /\ resps' = <<Json(500, NotConfiguredError)>>
                  /\ pc' = "done"
             ELSE IF ~FieldsPresent(BodyOf(r))
             THEN /\ resps' = <<Json(400, "missing_fields")>>
                  /\ pc' = "done"
             ELSE /\ resps' = <<>>
                  /\ pc' = IF deploy = "stripe" THEN "stripe" ELSE "token"
  /\ UNCHANGED <<deploy, env, pedidos, sumupTokenCache, now, tcall, tlog>>

\* Answers of POST /v0.1/checkouts
CheckoutCreateAnswers ==
  {[threw |-> TRUE, ok |-> FALSE, url |-> ""],
   [threw |-> FALSE, ok |-> FALSE, url |-> ""],
   [threw |-> FALSE, ok |-> TRUE, url |-> ""],
   [threw |-> FALSE, ok |-> TRUE, url |-> "https://pay.sumup/c1"]}

CreateCheckout(a) ==
  /\ h.route = "create"
  /\ pc = "checkout"
  /\ calls' = Append(calls, [to |-> "checkouts.create", arg |-> req.body.pedidoId.v])
  /\ resps' = Append(resps,
       IF a.threw THEN ThrowResponse
       ELSE IF ~a.ok THEN Json(500, "sumup_checkout_failed")
       ELSE IF a.url = "" THEN Json(500, "sumup_checkout_missing_url")
       ELSE JsonBody(200, [checkout_id |-> "c1", url |-> a.url]))
  /\ pc' = "done"
  /\ UNCHANGED <<deploy, env, pedidos, sumupTokenCache, now, req, h, nreq, tcall, tlog>>

\* stripe.checkout.sessions.create
CreateStripeSession(threw) ==
  /\ h.route = "create"
  /\ pc = "stripe"
  /\ calls' = Append(calls, [to |-> "stripe.sessions.create", arg |-> req.body.pedidoId.v])
  /\ resps' = Append(resps,
       IF threw THEN ThrowResponse
       ELSE JsonBody(200, [id |-> "cs_1", url |-> "https://pay.stripe/cs_1"]))
  /\ pc' = "done"
  /\ UNCHANGED <<deploy, env, pedidos, sumupTokenCache, now, req, h, nreq, tcall, tlog>>

InitCreate ==
  /\ deploy \in {"express", "sumup", "stripe"}
  /\ env \in {[EnvBase EXCEPT !.API_TOKEN = t, !.SUMUP_CLIENT_ID = i,
                              !.SUMUP_CLIENT_SECRET = c, !.SUMUP_MERCHANT_CODE = m,
                              !.STRIPE_SECRET_KEY = k] :
                t \in {"", "s3cret"}, i \in {"", "id"}, c \in {"", "secret"},
                m \in {"", "M1"}, k \in {"", "sk"}}
  /\ deploy /= "express" => env.API_TOKEN = ""
  /\ deploy = "stripe" =>
       env.SUMUP_CLIENT_ID = "id" /\ env.SUMUP_CLIENT_SECRET = "secret"
       /\ env.SUMUP_MERCHANT_CODE = "M1"
  /\ deploy /= "stripe" => env.STRIPE_SECRET_KEY = "sk"
  /\ InitCommon

NextCreate ==
  \/ \E r \in CreateRequests : CreateRequest(r)
  \/ HandlerToken
  \/ \E a \in HandlerTokenAnswers : HandlerTokenAnswer(a)
  \/ \E a \in CheckoutCreateAnswers : CreateCheckout(a)
  \/ \E t \in BOOLEAN : CreateStripeSession(t)
  \/ RequestEnd

SpecCreate == InitCreate /\ [][NextCreate]_vars

---------------------------------------------------------------------------
(* Web Push dispatcher: part_000:82-125 *)

\* part_000:47-55
webpushConfigured == env.PUSH_PROVIDER \in {"webpush", "both"} /\ env.VAPID

Notifications ==
  {Undef, [t |-> "object", title |-> "", url |-> ""],
   [t |-> "object", title |-> "Novo pedido", url |-> "/pedidos"]}

PushBodies ==
  {NoBody} \cup [t : {"object"}, userId : {Undef, Str("u1")}, notification : Notifications]

PushRequests == [route : {"push"}, authorization : AuthHeaders, body : PushBodies]

\* req.body || {}
PushBodyOf(r) ==
  IF r.body = NoBody THEN [t |-> "object", userId |-> Undef, notification |-> Undef]
  ELSE r.body

\* part_000:98-104
Payload(n) ==
  [title |-> Or(n.title, "Pediae"), body |-> "", url |-> Or(n.url, "/"),
   icon |-> "/icons/icon-192x192.png"]

\* a row of user_push_subscriptions
Sub(k) == [endpoint |-> <<"https://push.example/", k>>, p256dh |-> <<"p", k>>, auth |-> <<"a", k>>]

\* Answers of the subscription lookup: a thrown error, a returned error, a null
\* result, or up to MaxSubs rows in either order.
LookupAnswers ==
  {[threw |-> TRUE, error |-> "", null |-> FALSE, data |-> <<>>],
   [threw |-> FALSE, error |-> "timeout", null |-> FALSE, data |-> <<>>],
   [threw |-> FALSE, error |-> "", null |-> TRUE, data |-> <<>>]} \cup
  {[threw |-> FALSE, error |-> "", null |-> FALSE, data |-> [i \in 1..n |-> Sub(i)]] :
      n \in 0..MaxSubs} \cup
  {[threw |-> FALSE, error |-> "", null |-> FALSE, data |-> [i \in 1..n |-> Sub(n + 1 - i)]] :
      n \in 2..MaxSubs}

\* Outcomes of webpush.sendNotification: a response, or a thrown error
SendOutcomes ==
  {[ok |-> TRUE, statusCode |-> 201, body |-> "", message |-> ""],
   [ok |-> FALSE, statusCode |-> 410, body |-> "gone", message |-> "Received unexpected response code"],
   [ok |-> FALSE, statusCode |-> 0, body |-> "", message |-> "ETIMEDOUT"],
   [ok |-> FALSE, statusCode |-> 0, body |-> "", message |-> ""]}

NoSubsOnlyNull(a) == a.null

\* !subs || subs.length === 0
NoSubs(a) == a.null \/ Len(a.data) = 0

SentAfterAlways(sent, o) == sent + 1

\* sent += 1 on the success path only
SentAfter(sent, o) == IF o.ok THEN sent + 1 ELSE sent

\* the entry pushed to results
ResultOf(sub, o) ==
  IF o.ok THEN [endpoint |-> sub.endpoint, status |-> o.statusCode]
  ELSE [endpoint |-> sub.endpoint, error |-> Or(o.body, Or(o.message, "push_error"))]

PushFrame(r) ==
  [route |-> "push", lookup |-> [null |-> FALSE, data |-> <<>>], looked |-> FALSE,
   sent |-> 0, results |-> <<>>, payload |-> <<>>]

PushRequest(r) ==
  /\ deploy = "express"
  /\ pc = "idle"
  /\ nreq < MaxRequests
  /\ req' = [route |-> r.route, body |-> r.body]
  /\ nreq' = nreq + 1
  /\ calls' = <<>>
  /\ IF ~AuthPasses(r)
     THEN /\ resps' = <<Json(401, "unauthorized")>>
          /\ pc' = "done"
          /\ h' = IdleFrame
     ELSE /\ h' = PushFrame(r)
          /\ IF ~webpushConfigured
             THEN /\ resps' = <<Json(503, "webpush_not_configured")>>
                  /\ pc' = "done"
             ELSE IF ~(Truthy(PushBodyOf(r).userId) /\ Truthy(PushBodyOf(r).notification))
             THEN /\ resps' = <<Json(400, "userId and notification are required")>>
                  /\ pc' = "done"
             ELSE /\ resps' = <<>>
                  /\ pc' = "lookup"
  /\ UNCHANGED <<deploy, env, pedidos, sumupTokenCache, now, tcall, tlog>>

PushLookup(a) ==
  /\ h.route = "push"
  /\ pc = "lookup"
  /\ calls' = Append(calls, [to |-> "subscriptions.select", arg |-> req.body.userId.v])
  /\ IF a.threw
     THEN /\ resps' = <<Json(500, "server_error")>>
          /\ pc' = "done"
          /\ h' = h
     ELSE IF a.error /= ""
     THEN /\ resps' = <<Json(500, "db_error")>>
          /\ pc' = "done"
          /\ h' = h
     ELSE /\ h' = [h EXCEPT !.lookup = [null |-> a.null, data |-> a.data], !.looked = TRUE,
                            !.payload = IF NoSubs(a) THEN <<>>
                                        ELSE <<Payload(req.body.notification)>>]
          /\ IF NoSubs(a)
             THEN /\ resps' = <<JsonBody(200, [sent |-> 0])>>
                  /\ pc' = "done"
             ELSE IF Len(a.data) = 0
             THEN /\ resps' = <<JsonBody(200, [sent |-> 0, results |-> <<>>])>>
                  /\ pc' = "done"
             ELSE /\ resps' = <<>>
                  /\ pc' = "send"
  /\ UNCHANGED <<deploy, env, pedidos, sumupTokenCache, now, req, nreq, tcall, tlog>>

\* one iteration of the loop; after the last one the response is written
PushSend(o) ==
  /\ h.route = "push"
  /\ pc = "send"
  /\ LET s == h.lookup.data[Len(h.results) + 1]
         sent == SentAfter(h.sent, o)
         results == Append(h.results, ResultOf(s, o))
     IN /\ calls' = Append(calls, [to |-> "webpush", arg |-> s.endpoint, answer |-> o])
        /\ h' = [h EXCEPT !.sent = sent, !.results = results]
        /\ IF Len(results) = Len(h.lookup.data)
           THEN /\ resps' = <<JsonBody(200, [sent |-> sent, results |-> results])>>
                /\ pc' = "done"
           ELSE /\ resps' = resps
                /\ pc' = "send"
  /\ UNCHANGED <<deploy, env, pedidos, sumupTokenCache, now, req, nreq, tcall, tlog>>

InitPush ==
  /\ deploy = "express"
  /\ env \in {[EnvBase EXCEPT !.API_TOKEN = t, !.PUSH_PROVIDER = p, !.VAPID = v] :
                t \in {"", "s3cret"}, p \in {"webpush", "fcm", "both"}, v \in BOOLEAN}
  /\ InitCommon

NextPush ==
  \/ \E r \in PushRequests : PushRequest(r)
  \/ \E a \in LookupAnswers : PushLookup(a)
  \/ \E o \in SendOutcomes : PushSend(o)
  \/ RequestEnd

SpecPush == InitPush /\ [][NextPush]_vars

---------------------------------------------------------------------------
(* Properties of the return confirmer *)

CallsTo(name) == {i \in 1..Len(calls) : calls[i].to = name}

\* the checkout id and transaction id the request carries
QueryCheckoutId == Or(req.query.checkout_id, req.query.checkoutId)
QueryTxId == Or(req.query.transaction_id, req.query.transactionId)

\* the status standing after the checkout query: its answer, or PENDING
CheckoutStatus ==
  IF \E i \in CallsTo("checkout") : ~calls[i].answer.threw /\ calls[i].answer.status /= S_EMPTY
  THEN calls[CHOOSE i \in CallsTo("checkout") : TRUE].answer.status
  ELSE S_PENDING

\* the cancel destination: the configured cancel URL, '/' without one
CancelDestination == Or(env.SUMUP_CANCEL_URL, "/")

\* the success destination: the configured success URL, '/' without one
SuccessDestination == Or(env.SUMUP_SUCCESS_URL, "/")

\* C1: in the return handler, a resolved status matching /PAID|APPROVED|SUCCESS/i
\* is answered by a redirect to the success URL and every other resolved status
\* by a redirect to the cancel URL.
C1_StatusDecidesRedirect ==
  (pc = "done" /\ h.route = "return" /\ h.resolved) =>
     /\ Len(resps) = 1
     /\ resps[1] = Redirect(IF ApprovedTest(h.status)
                            THEN SuccessDestination ELSE CancelDestination)

\* C2: every request to the return route ends with exactly one response, a
\* browser redirect, never an error response.
C2_AlwaysOneRedirect ==
  (pc = "done" /\ req.route = "return") =>
     /\ Len(resps) = 1
     /\ resps[1].kind = "redirect"

\* C3: the order table is written only under the approval check: a request
\* issues at most one update, only with an approved resolved status and a
\* non-empty pedido_id; a write touches only the row whose id is pedido_id and
\* sets its status to 'aceito'; every other step leaves every order unchanged.
C3_OrdersWrittenOnlyOnApproval ==
  /\ [](h.route = "return" =>
          /\ Cardinality(CallsTo("pedidos.update")) <= 1
          /\ \A i \in CallsTo("pedidos.update") :
                /\ h.resolved
                /\ ApprovedTest(h.status)
                /\ req.query.pedido_id /= ""
                /\ calls[i].arg = req.query.pedido_id)
  /\ [][pedidos' /= pedidos =>
          /\ h.route = "return"
          /\ h.resolved
          /\ ApprovedTest(h.status)
          /\ req.query.pedido_id /= ""
          /\ Cardinality(CallsTo("pedidos.update")) = 0
          /\ \A k \in OrderIds :
                IF k = req.query.pedido_id
                THEN pedidos'[k].status = "aceito"
                ELSE pedidos'[k] = pedidos[k]]_vars

C3_Witness ==
  /\ pc = "done"
  /\ nreq = 2
  /\ CallsTo("pedidos.update") /= {}
  /\ pedidos["p1"].status = "aceito"
  /\ pedidos["p2"] = NewOrder

\* C4: with a transaction id and a checkout status of exactly PENDING, PAID or
\* APPROVED the transaction endpoint is queried once and its non-empty status
\* becomes the resolved status (PENDING then PAID gives approval); with any
\* other checkout status, or no transaction id, it is not queried and the
\* checkout status stands.
C4_TransactionOverrides ==
  h.route = "return" =>
    LET eligible == QueryTxId /= "" /\ CheckoutStatus \in {S_PENDING, S_PAID, S_APPROVED}
        tx == CallsTo("transaction")
    IN /\ tx /= {} => eligible
       /\ h.resolved =>
            IF eligible
            THEN /\ Cardinality(tx) = 1
                 /\ \A i \in tx :
                      /\ calls[i].arg = QueryTxId
                      /\ h.status = IF calls[i].answer.status /= S_EMPTY
                                    THEN calls[i].answer.status ELSE CheckoutStatus
                      /\ (CheckoutStatus = S_PENDING /\ calls[i].answer.status = S_PAID)
                            => h.approved
            ELSE tx = {} /\ h.status = CheckoutStatus

C4_Witness ==
  /\ h.route = "return"
  /\ h.resolved
  /\ CheckoutStatus = S_PENDING
  /\ CallsTo("checkout") /= {}
  /\ \E i \in CallsTo("transaction") : calls[i].answer.status = S_PAID
  /\ h.approved

\* C5: a request handled by the return handler with neither a checkout id nor a
\* transaction id keeps the status at PENDING, queries neither endpoint, updates
\* no order and is redirected to the cancel URL.
C5_NoIdsCancels ==
  (h.route = "return" /\ QueryCheckoutId = "" /\ QueryTxId = "") =>
     /\ h.status = S_PENDING
     /\ CallsTo("checkout") = {}
     /\ CallsTo("transaction") = {}
     /\ CallsTo("pedidos.update") = {}
     /\ pc = "done" => resps = <<Redirect(CancelDestination)>>

C5_Witness ==
  /\ pc = "done"
  /\ h.route = "return"
  /\ h.resolved
  /\ QueryCheckoutId = "" /\ QueryTxId = ""
  /\ req.query.pedido_id = "p1"
  /\ env.SUMUP_CANCEL_URL /= ""

---------------------------------------------------------------------------
(* Properties of the checkout creators *)

\* the body has no pedidoId or no amount
LacksField == BodyOf(req).pedidoId = Undef \/ BodyOf(req).amount = Undef

\* the provider's credentials are all set
CredentialsSet ==
  IF deploy = "stripe" THEN env.STRIPE_SECRET_KEY /= ""
  ELSE "" \notin {env.SUMUP_CLIENT_ID, env.SUMUP_CLIENT_SECRET, env.SUMUP_MERCHANT_CODE}

\* C6 as stated: every creation POST handled by a creator whose body lacks
\* pedidoId or amount is answered with 400 missing_fields.
C6_MissingFieldsAlways400 ==
  (pc = "done" /\ h.route = "create" /\ LacksField) =>
     resps = <<Json(400, "missing_fields")>>

\* C6 as amended: with the provider's credentials set, every creation POST
\* handled by a creator whose body lacks pedidoId or amount is answered with
\* 400 missing_fields.
C6_MissingFields400WhenConfigured ==
  (pc = "done" /\ h.route = "create" /\ CredentialsSet /\ LacksField) =>
     resps = <<Json(400, "missing_fields")>>

C6_Witness ==
  /\ pc = "done"
  /\ h.route = "create"
  /\ CredentialsSet
  /\ req.body /= NoBody
  /\ req.body.pedidoId = Str("p1")
  /\ req.body.amount = Undef
  /\ req.body.restaurantNome = Str("Cantina")

\* C7: with a provider credential missing, a creation POST handled by a creator
\* is answered with 500 and an error ending in _not_configured, and no outbound
\* call is ever made for it.
C7_NotConfiguredBeforeAnyCall ==
  (h.route = "create" /\ ~CredentialsSet) =>
     /\ calls = <<>>
     /\ pc = "done"
     /\ resps \in {<<Json(500, "sumup_not_configured")>>, <<Json(500, "stripe_not_configured")>>}

C7_Witness ==
  /\ pc = "done"
  /\ h.route = "create"
  /\ deploy = "express"
  /\ env.SUMUP_MERCHANT_CODE = ""
  /\ env.SUMUP_CLIENT_ID /= ""
  /\ env.SUMUP_CLIENT_SECRET /= ""
  /\ FieldsPresent(BodyOf(req))

---------------------------------------------------------------------------
(* Properties of the Web Push dispatcher *)

\* the send attempts of the request, in the order made
Attempts == SelectSeq(calls, LAMBDA c : c.to = "webpush")

Successes == {i \in 1..Len(Attempts) : Attempts[i].answer.ok}

\* C8: a batch over n stored subscriptions is never aborted by a failing send:
\* every subscription is attempted exactly once, in list order; the response's
\* sent is the number of successful sends and results has n entries in
\* subscription order, each failed endpoint's entry carrying its error.
C8_BatchSurvivesFailures ==
  (pc = "done" /\ h.route = "push" /\ h.looked /\ ~h.lookup.null /\ Len(h.lookup.data) > 0) =>
     LET subs == h.lookup.data
         n == Len(subs)
     IN /\ Len(Attempts) = n
        /\ \A i \in 1..n : Attempts[i].arg = subs[i].endpoint
        /\ Len(resps) = 1
        /\ resps[1].kind = "json" /\ resps[1].code = 200
        /\ resps[1].body.sent = Cardinality(Successes)
        /\ Len(resps[1].body.results) = n
        /\ \A i \in 1..n :
              LET e == resps[1].body.results[i] IN
              /\ e.endpoint = subs[i].endpoint
              /\ IF i \in Successes
                 THEN "error" \notin DOMAIN e
                 ELSE /\ "error" \in DOMAIN e
                      /\ e.error = IF Attempts[i].answer.body /= ""
                                   THEN Attempts[i].answer.body
                                   ELSE IF Attempts[i].answer.message /= ""
                                   THEN Attempts[i].answer.message
                                   ELSE "push_error"

C8_Witness ==
  /\ pc = "done"
  /\ h.route = "push"
  /\ Len(h.lookup.data) = 3
  /\ Len(Attempts) = 3
  /\ Successes = {1, 3}
  /\ resps[1].body.sent = 2
  /\ resps[1].body.results[2].error = "gone"

\* C9: when the lookup yields no subscription (an empty list or null) the
\* answer is {sent: 0} and sendNotification is never called.
C9_NoSubscriptionsNoPush ==
  (h.route = "push" /\ h.looked /\ (h.lookup.null \/ h.lookup.data = <<>>)) =>
     /\ pc = "done"
     /\ resps = <<JsonBody(200, [sent |-> 0])>>
     /\ Attempts = <<>>

C9_Witness ==
  /\ pc = "done"
  /\ h.route = "push"
  /\ h.looked
  /\ ~h.lookup.null
  /\ h.lookup.data = <<>>
  /\ resps = <<JsonBody(200, [sent |-> 0])>>

---------------------------------------------------------------------------
(* Properties of the memoized token *)

\* the call met a cached token and its time was more than 60 s before expiry
MetFreshToken(e) == e.met.token /= "" /\ e.tnow + 60000 < e.met.expiresAt

\* C10: over calls that do not overlap, a call that meets a cached token more
\* than 60 s before its expiry makes no upstream request and returns that
\* token; any other call (no token, expired, within 60 s of expiry) makes
\* exactly one upstream request.  So of two consecutive calls, the second
\* inside the validity window of the token the first one fetched, only the
\* first goes upstream.
C10_OneFetchPerValidityWindow ==
  /\ \A i \in 1..Len(tlog) :
        IF MetFreshToken(tlog[i])
        THEN /\ tlog[i].fetched = 0
             /\ tlog[i].outcome = "returned"
             /\ tlog[i].ret = tlog[i].met.token
        ELSE tlog[i].fetched = 1
  /\ \A c \in Callers :
        tcall[c].pc = "fetching" => tcall[c].fetched = 1 /\ ~MetFreshToken(tcall[c])
  /\ (/\ Len(tlog) = 2
      /\ tlog[1].fetched = 1
      /\ tlog[1].outcome = "returned"
      /\ tlog[1].ret /= ""
      /\ tlog[2].tnow + 60000 <
           tlog[1].tnow + 1000 * (IF tlog[1].answer.expires_in = 0 THEN 600
                                  ELSE tlog[1].answer.expires_in))
     => tlog[1].fetched + tlog[2].fetched = 1

\* two calls in one validity window, then the state after a later call refetched
C10_Witness ==
  /\ Len(tlog) = 2
  /\ tlog[1].fetched = 0
  /\ tlog[1].tnow = 30000
  /\ tlog[1].met.expiresAt = 120000
  /\ tlog[2].fetched = 1
  /\ tlog[2].tnow = 60000
  /\ tlog[2].met = tlog[1].met
  /\ tlog[2].outcome = "returned"

---------------------------------------------------------------------------
(* Properties of the memoized token under overlapping calls *)

\* the cache record one upstream response gives the call that started at time t
RecordFrom(t, a) ==
  [token |-> a.access_token,
   expiresAt |-> t + 1000 * (IF a.expires_in = 0 THEN 600 ELSE a.expires_in)]

\* C11: under any interleaving of overlapping getSumupToken calls the cache is
\* never corrupted: in every state it is the initial empty record or the token
\* and expiry of one single successful upstream response; every write replaces
\* it whole by the record of the response just received; a failed fetch leaves
\* it unchanged; and every call that has returned holds the token of a
\* successful upstream response.
C11_RaceNeverCorruptsCache ==
  /\ [](\/ sumupTokenCache = EmptyCache
        \/ \E i \in 1..Len(calls) :
              sumupTokenCache = RecordFrom(calls[i].tnow, calls[i].answer))
  /\ [](\A c \in Callers :
          tcall[c].pc = "returned" =>
             \E i \in 1..Len(calls) : tcall[c].ret = calls[i].answer.access_token)
  /\ [][\A c \in Callers :
          (tcall[c].pc = "fetching" /\ tcall'[c].pc = "threw")
             => sumupTokenCache' = sumupTokenCache]_vars
  /\ [][sumupTokenCache' /= sumupTokenCache =>
          \E c \in Callers :
             /\ tcall[c].pc = "fetching"
             /\ tcall'[c].pc = "returned"
             /\ tcall'[c].answer.ok
             /\ sumupTokenCache' = RecordFrom(tcall[c].tnow, tcall'[c].answer)]_vars

\* two overlapping calls both went upstream at the same instant (a duplicate
\* fetch); the cache holds the record of the response that arrived last
C11_Witness ==
  /\ Len(calls) = 2
  /\ calls[1].by /= calls[2].by
  /\ calls[1].tnow = calls[2].tnow
  /\ calls[1].answer = [ok |-> TRUE, access_token |-> "tokA", expires_in |-> 0]
  /\ calls[2].answer = [ok |-> TRUE, access_token |-> "tokB", expires_in |-> 120]
  /\ tcall[calls[1].by].pc = "returned" /\ tcall[calls[1].by].ret = "tokA"
  /\ tcall[calls[2].by].pc = "returned" /\ tcall[calls[2].by].ret = "tokB"
  /\ sumupTokenCache = RecordFrom(calls[2].tnow, calls[2].answer)

=============================================================================
